---- MODULE Spec2Model ----
(***************************************************************************)
(* A model of packages/vue-language-server/src/features/languageFeatures.ts *)
(* (function register): the request handlers registered on the connection,  *)
(* the dispatch helper worker(uri, cb), the engine lookup                   *)
(* getLanguageService(uri) and the file-rename handler onWillRenameFiles.   *)
(*                                                                         *)
(* JavaScript runs the handlers on one thread.  A handler runs without      *)
(* interruption up to its next await; each action below is one such run:    *)
(* from the event that resumes the handler (a request arriving, an awaited  *)
(* promise settling) to the next await or to the handler's end.             *)
(***************************************************************************)
EXTENDS Integers, Sequences, FiniteSets, TLC

(***************************************************************************)
(* Bounds of the model.                                                    *)
(***************************************************************************)
MaxBatches == 1
MaxOverlap == 2
MaxFiles == 2
MaxVersion == 1
MaxWorkspaces == 2
MaxProjects == 2
MaxItems == 1
MaxTokens == 2
MaxLine == 1

\* The invocations of onWillRenameFiles: those that may overlap, and those followed on
\* their own.
Batches == 1..MaxOverlap
SoloBatches == 1..MaxBatches

\* Document identifiers.  The names carry the extension the handler looks at.
URIs == {"a.ts", "b.ts", "c.js"}

VARIABLES
    \* ---- state shared by the rename handler and the rest of the server
    documents,              \* uri -> 0 (no text retrievable) or the version of the document's text
    fileRenamings,          \* the in-flight set: the batches whose `renaming` promise is in it
    renameFileContentCache, \* uri -> 0 (no entry) or the version of the text snapshotted
    \* ---- one onWillRenameFiles invocation per batch
    files,                  \* handler.files: a sequence of [oldUri, newUri]
    configSection,          \* the configuration section asked for
    config,                 \* the value getConfiguration returned
    pc,                     \* where the handler and its `renaming` promise are
    query,                  \* per file of the batch: where the async map callback of worker() is
    edits,                  \* per file of the batch: what the callback returned
    response,               \* what the handler answered
    applied,                \* the edits passed to connection.workspace.applyEdit, in call order
    cacheWriters,           \* history: the batches that wrote renameFileContentCache
    lookedUp,               \* history: per file of the batch, the identifier given to getLanguageService
    settled,                \* history: the files of the batch in the order their queries fulfilled
    merged,                 \* history: what worker() returned
    events,                 \* history: what the batch did, in order
    captured,               \* history: the content the batch snapshotted, while it is in flight
    \* ---- one onWorkspaceSymbol invocation
    workspaces,             \* projects.workspaces: per workspace, its number of explicit projects
    symPc,                  \* where the handler is
    symW, symP,             \* the workspace and the index in its project list the loops are at
    results,                \* the handler's local `results`
    cancelRequested,        \* token.isCancellationRequested
    symResponse,            \* what the handler answered
    symCalls,               \* history: the engines queried, <<workspace, project>>, in call order
    symAnswers,             \* history: the lists the engines answered, in call order
    cancelSeen,             \* history: the check before a query read the token as cancelled
    \* ---- one request dispatched through worker(uri, cb), and what the client holds
    dpc,                    \* where the handler is
    dreq,                   \* the request: its kind, its document identifier, its item
    workerUri,              \* the identifier the handler passed to worker(uri, cb)
    resolved,               \* what getLanguageService(uri) yielded
    cbInvoked,              \* whether worker called cb
    workerReturn,           \* what worker(uri, cb) returned
    answer,                 \* history: the kind of answer the engine gave to cb's call
    attachThrew,            \* history: cb threw while attaching the identifier to an item
    dresponse,              \* what the handler answered
    held,                   \* the items of the last first-phase answer, as the client holds them
    \* ---- the completion handlers: the server's settings and the resolve handler's locals
    insertReplaceSupport,   \* params.capabilities.textDocument?.completion?.completionItem?.insertReplaceSupport
    completionFeature,      \* features.completion, and its getDocumentSelectionRequest
    selectionRequests,      \* history: the GetEditorSelectionRequests sent to the client
    activeSel,              \* the handler's local `activeSel`
    newPosition,            \* the handler's local `newPosition`
    engineList,             \* history: the list doComplete answered
    \* ---- buildTokens(tokens), on two arrays holding the same tuples
    tokens,                 \* the array passed to buildTokens, which sorts it in place
    encoded,                \* what buildTokens(tokens) returned
    otherTokens,            \* another array of the same tuples, in another order
    otherEncoded            \* what buildTokens(otherTokens) returned

renameVars == <<documents, fileRenamings, renameFileContentCache, files, configSection,
                config, pc, query, edits, response, applied, cacheWriters, lookedUp,
                settled, merged, events, captured>>

\* The history of the rename handler.
renameHistory == <<lookedUp, settled, merged, events, captured>>

symVars == <<workspaces, symPc, symW, symP, results, cancelRequested, symResponse,
             symCalls, symAnswers, cancelSeen>>

dispVars == <<dpc, dreq, workerUri, resolved, cbInvoked, workerReturn, answer, attachThrew,
              dresponse, held>>

compVars == <<insertReplaceSupport, completionFeature, selectionRequests, activeSel,
              newPosition, engineList>>

tokVars == <<tokens, encoded, otherTokens, otherEncoded>>

vars == <<renameVars, symVars, dispVars, compVars, tokVars>>

\* What the steps of one handler family leave alone.
notRename == <<symVars, dispVars, compVars, tokVars>>
notSym == <<renameVars, dispVars, compVars, tokVars>>
notDisp == <<renameVars, symVars, tokVars>>
notTok == <<renameVars, symVars, dispVars, compVars>>

(***************************************************************************)
(* Values.                                                                 *)
(***************************************************************************)
\* A WorkspaceEdit, or the absence of one (null / undefined).  documentChanges is a
\* sequence of changes; a change is a TextDocumentEdit (kind "edit": textDocument.uri,
\* textDocument.version) or a resource operation (kind "op": create/rename/delete).
NoEdit == [some |-> FALSE, documentChanges |-> <<>>]
Edit(dc) == [some |-> TRUE, documentChanges |-> dc]
Change(k, u, v) == [kind |-> k, uri |-> u, version |-> v]

\* What one engine may answer to getEditsForFileRename: nothing, or an edit of one change
\* whose version stamp is null (0).
EngineEdits ==
    {NoEdit} \cup {Edit(<<Change(k, u, 0)>>) : k \in {"edit", "op"}, u \in URIs}

\* The handler's answer.
Pending == [kind |-> "pending", edit |-> NoEdit]
Raised == [kind |-> "raised", edit |-> NoEdit]
Returned(e) == [kind |-> "returned", edit |-> e]

ConfigValues == {"prompt", "always", "never", "null", "undefined"}

\* handler.files of a batch: 1..MaxFiles files, each renamed to another identifier, no
\* file named twice as the old file of the batch.
File(o, n) == [oldUri |-> o, newUri |-> n]
AllFiles == {File(o, n) : o \in URIs, n \in URIs}
FileBatches ==
    {fs \in UNION {[1..n -> AllFiles] : n \in 1..MaxFiles} :
        /\ \A i \in DOMAIN fs : fs[i].oldUri # fs[i].newUri
        /\ \A i, j \in DOMAIN fs : i # j => fs[i].oldUri # fs[j].oldUri}

(***************************************************************************)
(* The pure parts of onWillRenameFiles.                                    *)
(***************************************************************************)
EndsWithTs(u) == u \in {"a.ts", "b.ts"}

HasTsFile(fs) == \E i \in DOMAIN fs : EndsWithTs(fs[i].newUri)

ConfigSection(fs) ==
    IF HasTsFile(fs) THEN "typescript.updateImportsOnFileMove.enabled"
    ELSE "javascript.updateImportsOnFileMove.enabled"

\* getScriptText(documents, fsPath, ts.sys): the text of the file, 0 when there is none.
GetScriptText(docs, u) == docs[u]

\* getDocumentSafely(documents, uri)?.version: 0 when the document is not known.
GetDocumentVersion(docs, u) == docs[u]

\* The for loop at the head of the `renaming` executor.
RECURSIVE SnapshotContent(_, _, _)
SnapshotContent(cache, fs, docs) ==
    IF fs = <<>> THEN cache
    ELSE LET file == Head(fs)
             renameFileContent == GetScriptText(docs, file.oldUri)
             next == IF renameFileContent # 0
                     THEN [cache EXCEPT ![file.oldUri] = renameFileContent]
                     ELSE cache
         IN  SnapshotContent(next, Tail(fs), docs)

\* Whether the loop above writes the cache at all.
WritesCache(fs, docs) == \E i \in DOMAIN fs : GetScriptText(docs, fs[i].oldUri) # 0

\* The inner `for (const file of handler.files)` on one change.
RECURSIVE RewriteChange(_, _, _)
RewriteChange(change, fs, docs) ==
    IF fs = <<>> THEN change
    ELSE LET file == Head(fs)
             version == GetDocumentVersion(docs, file.newUri)
             next == IF change.uri = file.oldUri
                     THEN [change EXCEPT !.uri = file.newUri,
                                         !.version = IF version # 0 THEN version ELSE @]
                     ELSE change
         IN  RewriteChange(next, Tail(fs), docs)

\* The loop over edit.documentChanges: only TextDocumentEdits are rewritten.
RewriteEdit(edit, fs, docs) ==
    Edit([k \in DOMAIN edit.documentChanges |->
            IF edit.documentChanges[k].kind = "edit"
            THEN RewriteChange(edit.documentChanges[k], fs, docs)
            ELSE edit.documentChanges[k]])

\* shared.notEmpty as a filter over the callbacks' results.
RECURSIVE FilterNotEmpty(_)
FilterNotEmpty(es) ==
    IF es = <<>> THEN <<>>
    ELSE IF Head(es).some THEN <<Head(es)>> \o FilterNotEmpty(Tail(es))
    ELSE FilterNotEmpty(Tail(es))

\* vue.mergeWorkspaceEdits(result, ...others): the others' document changes are
\* appended to result's, in order.
RECURSIVE MergeWorkspaceEdits(_, _)
MergeWorkspaceEdits(result, others) ==
    IF others = <<>> THEN result
    ELSE MergeWorkspaceEdits(Edit(result.documentChanges \o Head(others).documentChanges),
                             Tail(others))

\* A worker() that returns the first edit and merges nothing into it.
WorkerResultFirstOnly(es) ==
    LET notEmpty == FilterNotEmpty(es)
    IN  IF Len(notEmpty) > 0 THEN notEmpty[1] ELSE NoEdit

\* The tail of worker(): what it returns once Promise.all has fulfilled with `es`.
WorkerResult(es) ==
    LET notEmpty == FilterNotEmpty(es)
    IN  IF Len(notEmpty) > 0
        THEN MergeWorkspaceEdits(notEmpty[1], Tail(notEmpty))
        ELSE NoEdit

\* What `await projects.getProject(uri)` may yield: undefined, an entry whose project is
\* missing, or an entry with its project.
ProjectLookups == {"undefined", "no project", "project"}

\* getLanguageService(uri): `(await projects.getProject(uri))?.project`, then
\* `project?.getLanguageService()`: whether the result is an engine.
HasLanguageService(lookup) == lookup = "project"

\* `if (config === 'always')` and `if (config === 'prompt')`.
IsAlways(c) == c = "always"
IsPrompt(c) == c = "prompt"

\* A handler that forgets to register its renaming.
AddRenamingForgotten(set, b) == set

\* fileRenamings.add(renaming)
AddRenaming(set, b) == set \cup {b}

\* fileRenamings.delete(renaming)
DeleteRenaming(set, b) == set \ {b}

\* renameFileContentCache.clear()
EmptyCache == [u \in URIs |-> 0]

\* worker()'s result, once it has returned.
NotReturned == [returned |-> FALSE, edit |-> NoEdit]
WorkerReturned(edit) == [returned |-> TRUE, edit |-> edit]

\* An executor that passes whatever worker() returned to applyEdit.
ApplyEditUnguarded(edit) == TRUE

\* `if (edit) { ... connection.workspace.applyEdit(edit); }`
ApplyEditCalled(edit) == edit.some

\* A prompt branch that awaits worker() without returning its result, and so falls
\* through to `return null`.
PromptResponseDropped(edit) == Returned(NoEdit)

\* `return await worker()` of the prompt branch.
PromptResponse(edit) == Returned(edit)

(***************************************************************************)
(* The rename handler.                                                     *)
(***************************************************************************)
AllFulfilled(b) == \A i \in DOMAIN query[b] : query[b][i] = "fulfilled"
SomeRejected(b) == \E i \in DOMAIN query[b] : query[b][i] = "rejected"

\* worker() up to its await: every callback of handler.files.map has run up to its
\* `await getLanguageService(file.oldUri)`.
StartWorker(b) ==
    /\ query' = [query EXCEPT ![b] = [i \in DOMAIN files[b] |-> "resolving"]]
    /\ edits' = [edits EXCEPT ![b] = [i \in DOMAIN files[b] |-> NoEdit]]
    /\ lookedUp' = [lookedUp EXCEPT ![b] = [i \in DOMAIN files[b] |-> files[b][i].oldUri]]

RenameInit ==
    /\ documents \in [URIs -> 0..MaxVersion]
    /\ fileRenamings = {}
    /\ renameFileContentCache = EmptyCache
    /\ files = [b \in Batches |-> <<>>]
    /\ configSection = [b \in Batches |-> ""]
    /\ config = [b \in Batches |-> ""]
    /\ pc = [b \in Batches |-> "idle"]
    /\ query = [b \in Batches |-> <<>>]
    /\ edits = [b \in Batches |-> <<>>]
    /\ response = [b \in Batches |-> Pending]
    /\ applied = [b \in Batches |-> <<>>]
    /\ cacheWriters = {}
    /\ lookedUp = [b \in Batches |-> <<>>]
    /\ settled = [b \in Batches |-> <<>>]
    /\ merged = [b \in Batches |-> NotReturned]
    /\ events = [b \in Batches |-> <<>>]
    /\ captured = [b \in Batches |-> EmptyCache]

\* The client announces a batch of renames: the handler runs up to
\* `await connection.workspace.getConfiguration(...)`.
OnWillRenameFiles(b, fs) ==
    /\ pc[b] = "idle"
    /\ \A earlier \in Batches : earlier < b => pc[earlier] # "idle"
    /\ files' = [files EXCEPT ![b] = fs]
    /\ configSection' = [configSection EXCEPT ![b] = ConfigSection(fs)]
    /\ pc' = [pc EXCEPT ![b] = "awaitConfig"]
    /\ UNCHANGED <<documents, fileRenamings, renameFileContentCache, config, query, edits,
                   response, applied, cacheWriters>>
    /\ UNCHANGED renameHistory
    /\ UNCHANGED notRename

\* getConfiguration fulfils with c: the handler runs to its next await or to its end.
GetConfigurationReturns(b, c) ==
    /\ pc[b] = "awaitConfig"
    /\ config' = [config EXCEPT ![b] = c]
    /\ IF IsAlways(c)
       THEN \* the executor of `renaming` up to `await shared.sleep(0)`, then
            \* fileRenamings.add, the async arrow up to `await renaming`, `return null`
            /\ renameFileContentCache' =
                   SnapshotContent(renameFileContentCache, files[b], documents)
            /\ cacheWriters' = IF WritesCache(files[b], documents)
                               THEN cacheWriters \cup {b} ELSE cacheWriters
            /\ captured' = [captured EXCEPT
                               ![b] = SnapshotContent(EmptyCache, files[b], documents)]
            /\ fileRenamings' = AddRenaming(fileRenamings, b)
            /\ response' = [response EXCEPT ![b] = Returned(NoEdit)]
            /\ events' = [events EXCEPT ![b] = <<"snapshot", "sleep", "add", "return">>]
            /\ pc' = [pc EXCEPT ![b] = "sleeping"]
            /\ UNCHANGED <<query, edits, lookedUp>>
       ELSE IF IsPrompt(c)
       THEN /\ StartWorker(b)
            /\ events' = [events EXCEPT ![b] = <<"worker">>]
            /\ pc' = [pc EXCEPT ![b] = "working"]
            /\ UNCHANGED <<renameFileContentCache, cacheWriters, captured, fileRenamings,
                           response>>
       ELSE /\ response' = [response EXCEPT ![b] = Returned(NoEdit)]
            /\ events' = [events EXCEPT ![b] = <<"return">>]
            /\ pc' = [pc EXCEPT ![b] = "done"]
            /\ UNCHANGED <<renameFileContentCache, cacheWriters, captured, fileRenamings,
                           query, edits, lookedUp>>
    /\ UNCHANGED <<documents, files, configSection, applied, settled, merged>>
    /\ UNCHANGED notRename

\* getConfiguration rejects: the await throws and the handler's promise rejects.
GetConfigurationFails(b) ==
    /\ pc[b] = "awaitConfig"
    /\ config' = [config EXCEPT ![b] = "failed"]
    /\ response' = [response EXCEPT ![b] = Raised]
    /\ pc' = [pc EXCEPT ![b] = "done"]
    /\ UNCHANGED <<documents, fileRenamings, renameFileContentCache, files, configSection,
                   query, edits, applied, cacheWriters>>
    /\ UNCHANGED renameHistory
    /\ UNCHANGED notRename

\* shared.sleep(0) is over: the executor calls worker().
SleepElapsed(b) ==
    /\ pc[b] = "sleeping"
    /\ StartWorker(b)
    /\ events' = [events EXCEPT ![b] = @ \o <<"slept", "worker">>]
    /\ pc' = [pc EXCEPT ![b] = "working"]
    /\ UNCHANGED <<documents, fileRenamings, renameFileContentCache, files, configSection,
                   config, response, applied, cacheWriters>>
    /\ UNCHANGED <<settled, merged, captured>>
    /\ UNCHANGED notRename

\* getLanguageService(file.oldUri) fulfils, with an engine or with undefined: with an
\* engine the callback calls getEditsForFileRename, without one it returns undefined.
GetLanguageServiceReturns(b, i, lookup) ==
    /\ i \in DOMAIN query[b]
    /\ query[b][i] = "resolving"
    /\ query' = [query EXCEPT ![b][i] =
                    IF HasLanguageService(lookup) THEN "editing" ELSE "fulfilled"]
    /\ settled' = IF HasLanguageService(lookup) THEN settled
                  ELSE [settled EXCEPT ![b] = Append(@, i)]
    /\ UNCHANGED <<documents, fileRenamings, renameFileContentCache, files, configSection,
                   config, pc, edits, response, applied, cacheWriters>>
    /\ UNCHANGED <<lookedUp, merged, events, captured>>
    /\ UNCHANGED notRename

\* getLanguageService(file.oldUri) rejects: so does the callback's promise.
GetLanguageServiceFails(b, i) ==
    /\ i \in DOMAIN query[b]
    /\ query[b][i] = "resolving"
    /\ query' = [query EXCEPT ![b][i] = "rejected"]
    /\ UNCHANGED <<documents, fileRenamings, renameFileContentCache, files, configSection,
                   config, pc, edits, response, applied, cacheWriters>>
    /\ UNCHANGED renameHistory
    /\ UNCHANGED notRename

\* The engine's getEditsForFileRename answers e.
GetEditsForFileRenameReturns(b, i, e) ==
    /\ i \in DOMAIN query[b]
    /\ query[b][i] = "editing"
    /\ query' = [query EXCEPT ![b][i] = "fulfilled"]
    /\ edits' = [edits EXCEPT ![b][i] = e]
    /\ settled' = [settled EXCEPT ![b] = Append(@, i)]
    /\ UNCHANGED <<documents, fileRenamings, renameFileContentCache, files, configSection,
                   config, pc, response, applied, cacheWriters>>
    /\ UNCHANGED <<lookedUp, merged, events, captured>>
    /\ UNCHANGED notRename

\* The engine's getEditsForFileRename fails.
GetEditsForFileRenameFails(b, i) ==
    /\ i \in DOMAIN query[b]
    /\ query[b][i] = "editing"
    /\ query' = [query EXCEPT ![b][i] = "rejected"]
    /\ UNCHANGED <<documents, fileRenamings, renameFileContentCache, files, configSection,
                   config, pc, edits, response, applied, cacheWriters>>
    /\ UNCHANGED renameHistory
    /\ UNCHANGED notRename

\* Promise.all fulfils: worker() filters and merges; its caller goes on.  In the prompt
\* branch the handler returns the result.  In the always branch the executor rewrites
\* the edit, calls applyEdit and resolves `renaming`.
WorkerReturns(b) ==
    /\ pc[b] = "working"
    /\ AllFulfilled(b)
    /\ LET edit == WorkerResult(edits[b])
       IN  /\ merged' = [merged EXCEPT ![b] = WorkerReturned(edit)]
           /\ IF IsAlways(config[b])
              THEN /\ applied' = IF ApplyEditCalled(edit)
                                 THEN [applied EXCEPT ![b] =
                                          Append(@, RewriteEdit(edit, files[b], documents))]
                                 ELSE applied
                   /\ events' = [events EXCEPT ![b] =
                                    @ \o <<"merged">>
                                      \o (IF ApplyEditCalled(edit) THEN <<"applyEdit">> ELSE <<>>)
                                      \o <<"resolve">>]
                   /\ pc' = [pc EXCEPT ![b] = "resolved"]
                   /\ UNCHANGED response
              ELSE /\ response' = [response EXCEPT ![b] = PromptResponse(edit)]
                   /\ events' = [events EXCEPT ![b] = @ \o <<"merged", "return">>]
                   /\ pc' = [pc EXCEPT ![b] = "done"]
                   /\ UNCHANGED applied
    /\ UNCHANGED <<documents, fileRenamings, renameFileContentCache, files, configSection,
                   config, query, edits, cacheWriters>>
    /\ UNCHANGED <<lookedUp, settled, captured>>
    /\ UNCHANGED notRename

\* Promise.all rejects as soon as one callback does: `await worker()` throws.  In the
\* prompt branch the handler's promise rejects.  In the always branch the executor's
\* own promise rejects, which nothing observes: resolve() is never called and
\* `renaming` stays pending.
WorkerThrows(b) ==
    /\ pc[b] = "working"
    /\ SomeRejected(b)
    /\ IF IsAlways(config[b])
       THEN /\ pc' = [pc EXCEPT ![b] = "failed"]
            /\ UNCHANGED response
       ELSE /\ response' = [response EXCEPT ![b] = Raised]
            /\ pc' = [pc EXCEPT ![b] = "done"]
    /\ events' = [events EXCEPT ![b] = Append(@, "threw")]
    /\ UNCHANGED <<documents, fileRenamings, renameFileContentCache, files, configSection,
                   config, query, edits, applied, cacheWriters>>
    /\ UNCHANGED <<lookedUp, settled, merged, captured>>
    /\ UNCHANGED notRename

\* `renaming` has resolved: the async arrow goes on after `await renaming`.
RenamingSettled(b) ==
    /\ pc[b] = "resolved"
    /\ fileRenamings' = DeleteRenaming(fileRenamings, b)
    /\ renameFileContentCache' = EmptyCache
    /\ captured' = [captured EXCEPT ![b] = EmptyCache]
    /\ events' = [events EXCEPT ![b] = @ \o <<"delete", "clear">>]
    /\ pc' = [pc EXCEPT ![b] = "done"]
    /\ UNCHANGED <<documents, files, configSection, config, query, edits, response,
                   applied, cacheWriters>>
    /\ UNCHANGED <<lookedUp, settled, merged>>
    /\ UNCHANGED notRename

\* The document store, between the handler's steps: a text appears (with the version
\* the client gives it) or goes away.
DidOpen(u, v) ==
    /\ documents[u] = 0
    /\ documents' = [documents EXCEPT ![u] = v]
    /\ UNCHANGED <<fileRenamings, renameFileContentCache, files, configSection, config,
                   pc, query, edits, response, applied, cacheWriters>>
    /\ UNCHANGED renameHistory
    /\ UNCHANGED notRename

DidClose(u) ==
    /\ documents[u] > 0
    /\ documents' = [documents EXCEPT ![u] = 0]
    /\ UNCHANGED <<fileRenamings, renameFileContentCache, files, configSection, config,
                   pc, query, edits, response, applied, cacheWriters>>
    /\ UNCHANGED renameHistory
    /\ UNCHANGED notRename

RenameNext ==
    \/ \E b \in SoloBatches, fs \in FileBatches : OnWillRenameFiles(b, fs)
    \/ \E b \in SoloBatches, c \in ConfigValues : GetConfigurationReturns(b, c)
    \/ \E b \in SoloBatches : GetConfigurationFails(b)
    \/ \E b \in SoloBatches : SleepElapsed(b)
    \/ \E b \in SoloBatches, i \in 1..MaxFiles, lookup \in ProjectLookups :
          GetLanguageServiceReturns(b, i, lookup)
    \/ \E b \in SoloBatches, i \in 1..MaxFiles : GetLanguageServiceFails(b, i)
    \/ \E b \in SoloBatches, i \in 1..MaxFiles, e \in EngineEdits :
          GetEditsForFileRenameReturns(b, i, e)
    \/ \E b \in SoloBatches, i \in 1..MaxFiles : GetEditsForFileRenameFails(b, i)
    \/ \E b \in SoloBatches : WorkerReturns(b)
    \/ \E b \in SoloBatches : WorkerThrows(b)
    \/ \E b \in SoloBatches : RenamingSettled(b)
    \/ \E u \in URIs, v \in 1..MaxVersion : DidOpen(u, v)
    \/ \E u \in URIs : DidClose(u)

\* Overlapping invocations: batches of one file each, a policy that is 'always' or
\* 'never', engines that answer no edit or one edit.
OverlapFileBatches == {<<File(o, n)>> : o \in {"a.ts", "b.ts"}, n \in {"b.ts", "c.js"}} \ {<<File("b.ts", "b.ts")>>}
OverlapEdits == {NoEdit, Edit(<<Change("edit", "a.ts", 0)>>)}

OverlapNext ==
    \/ \E b \in Batches, fs \in OverlapFileBatches : OnWillRenameFiles(b, fs)
    \/ \E b \in Batches, c \in {"always", "never"} : GetConfigurationReturns(b, c)
    \/ \E b \in Batches : SleepElapsed(b)
    \/ \E b \in Batches, lookup \in ProjectLookups : GetLanguageServiceReturns(b, 1, lookup)
    \/ \E b \in Batches : GetLanguageServiceFails(b, 1)
    \/ \E b \in Batches, e \in OverlapEdits : GetEditsForFileRenameReturns(b, 1, e)
    \/ \E b \in Batches : GetEditsForFileRenameFails(b, 1)
    \/ \E b \in Batches : WorkerReturns(b)
    \/ \E b \in Batches : WorkerThrows(b)
    \/ \E b \in Batches : RenamingSettled(b)
    \/ \E u \in URIs, v \in 1..MaxVersion : DidOpen(u, v)
    \/ \E u \in URIs : DidClose(u)


(***************************************************************************)
(* The workspace-symbol handler.                                           *)
(***************************************************************************)
Symbols == {"s", "t"}

\* What one engine may answer to findWorkspaceSymbols: no symbol, one, or two.
SymbolLists == {<<>>, <<"s">>, <<"s", "t">>}

SymPending == [kind |-> "pending", list |-> <<>>]
SymUndefined == [kind |-> "undefined", list |-> <<>>]
SymRaised == [kind |-> "raised", list |-> <<>>]
SymReturned(l) == [kind |-> "returned", list |-> l]

\* The inferred project of a workspace is project 0, its explicit projects 1..n.
\* `projects = [...workspace.projects.values()];
\*  projects = projects.length ? projects : [workspace.getInferredProject()]`
ProjectList(n) == IF n # 0 THEN [i \in 1..n |-> i] ELSE <<0>>

\* A concat that leaves out the symbols already held.
RECURSIVE ConcatResultsDeduplicated(_, _)
ConcatResultsDeduplicated(res, list) ==
    IF list = <<>> THEN res
    ELSE ConcatResultsDeduplicated(
             IF \E k \in DOMAIN res : res[k] = Head(list) THEN res ELSE Append(res, Head(list)),
             Tail(list))

\* `results = results.concat(await vueLs.findWorkspaceSymbols(handler.query))`
ConcatResults(res, list) == res \o list

\* A cancellation that answers what has been gathered so far.
CancelledResponsePartial(res) == SymReturned(res)

\* `if (token.isCancellationRequested) return;`
CancelledResponse(res) == SymUndefined

\* The first position of the nested loops at or after workspace w: <<0, 0>> when the
\* outer loop is over.
RECURSIVE FirstPosition(_, _)
FirstPosition(ws, w) ==
    IF w > Len(ws) THEN <<0, 0>>
    ELSE IF Len(ProjectList(ws[w])) > 0 THEN <<w, 1>>
    ELSE FirstPosition(ws, w + 1)

\* The position after <<w, p>>.
NextPosition(ws, w, p) ==
    IF p < Len(ProjectList(ws[w])) THEN <<w, p + 1>> ELSE FirstPosition(ws, w + 1)

\* The handler from the head of the inner loop's body at position pos (or from the end
\* of the loops) to its next await or its end, `res` being its results so far.
RunFrom(pos, res) ==
    IF pos = <<0, 0>>
    THEN /\ symResponse' = SymReturned(res)
         /\ symPc' = "done"
         /\ UNCHANGED <<symW, symP, cancelSeen>>
    ELSE IF cancelRequested
    THEN /\ symResponse' = CancelledResponse(res)
         /\ cancelSeen' = TRUE
         /\ symPc' = "done"
         /\ UNCHANGED <<symW, symP>>
    ELSE /\ symW' = pos[1]
         /\ symP' = pos[2]
         /\ symPc' = "awaitProject"
         /\ UNCHANGED <<symResponse, cancelSeen>>

SymInit ==
    /\ workspaces \in UNION {[1..n -> 0..MaxProjects] : n \in 0..MaxWorkspaces}
    /\ symPc = "idle"
    /\ symW = 0
    /\ symP = 0
    /\ results = <<>>
    /\ cancelRequested = FALSE
    /\ symResponse = SymPending
    /\ symCalls = <<>>
    /\ symAnswers = <<>>
    /\ cancelSeen = FALSE

\* The variables of a handler that is not part of the specification at hand.
SymIdle ==
    /\ workspaces = <<>>
    /\ symPc = "idle"
    /\ symW = 0
    /\ symP = 0
    /\ results = <<>>
    /\ cancelRequested = FALSE
    /\ symResponse = SymPending
    /\ symCalls = <<>>
    /\ symAnswers = <<>>
    /\ cancelSeen = FALSE

\* A workspace/symbol request arrives: the handler runs to its first await.
OnWorkspaceSymbol ==
    /\ symPc = "idle"
    /\ results' = <<>>
    /\ RunFrom(FirstPosition(workspaces, 1), <<>>)
    /\ UNCHANGED <<workspaces, cancelRequested, symCalls, symAnswers>>
    /\ UNCHANGED notSym

\* `await project` fulfils: the handler takes the project's engine and calls
\* findWorkspaceSymbols.
ProjectReady ==
    /\ symPc = "awaitProject"
    /\ symCalls' = Append(symCalls, <<symW, ProjectList(workspaces[symW])[symP]>>)
    /\ symPc' = "awaitEngine"
    /\ UNCHANGED <<workspaces, symW, symP, results, cancelRequested, symResponse,
                   symAnswers, cancelSeen>>
    /\ UNCHANGED notSym

\* `await project` rejects: the handler's promise rejects.
ProjectFails ==
    /\ symPc = "awaitProject"
    /\ symResponse' = SymRaised
    /\ symPc' = "done"
    /\ UNCHANGED <<workspaces, symW, symP, results, cancelRequested, symCalls, symAnswers,
                   cancelSeen>>
    /\ UNCHANGED notSym

\* findWorkspaceSymbols answers list: the handler appends it and goes on with the loops.
FindWorkspaceSymbolsReturns(list) ==
    /\ symPc = "awaitEngine"
    /\ symAnswers' = Append(symAnswers, list)
    /\ results' = ConcatResults(results, list)
    /\ RunFrom(NextPosition(workspaces, symW, symP), ConcatResults(results, list))
    /\ UNCHANGED <<workspaces, cancelRequested, symCalls>>
    /\ UNCHANGED notSym

\* findWorkspaceSymbols fails: the handler's promise rejects.
FindWorkspaceSymbolsFails ==
    /\ symPc = "awaitEngine"
    /\ symResponse' = SymRaised
    /\ symPc' = "done"
    /\ UNCHANGED <<workspaces, symW, symP, results, cancelRequested, symCalls, symAnswers,
                   cancelSeen>>
    /\ UNCHANGED notSym

\* The client cancels the request.
CancelRequest ==
    /\ ~cancelRequested
    /\ cancelRequested' = TRUE
    /\ UNCHANGED <<workspaces, symPc, symW, symP, results, symResponse, symCalls,
                   symAnswers, cancelSeen>>
    /\ UNCHANGED notSym

SymNext ==
    \/ OnWorkspaceSymbol
    \/ ProjectReady
    \/ ProjectFails
    \/ \E list \in SymbolLists : FindWorkspaceSymbolsReturns(list)
    \/ FindWorkspaceSymbolsFails
    \/ CancelRequest

(***************************************************************************)
(* Requests dispatched through worker(uri, cb), and the two-phase requests. *)
(***************************************************************************)
\* JavaScript values of an item's free-form `data`: undefined, null, a primitive, or an
\* object, which is a function from its keys to their values.
Undef == "<undefined>"
Keys == {"uri", "__uri", "k"}
JsUndefined == [t |-> "undefined", f |-> <<>>]
JsNull == [t |-> "null", f |-> <<>>]
JsPrimitive == [t |-> "primitive", f |-> <<>>]
JsObject(f) == [t |-> "object", f |-> f]

\* The objects an engine may put there: any of the keys, each with a value of its own.
EngineObjects == {JsObject([k \in S |-> IF k = "k" THEN "v" ELSE "c.js"]) : S \in SUBSET Keys}
DataValues == {JsUndefined, JsNull, JsPrimitive} \cup EngineObjects

\* `typeof v === 'object'`: true of objects and of null.
TypeofIsObject(v) == v.t \in {"object", "null"}

\* Truthiness of v, for the values that are objects, null or undefined (a primitive is
\* never an object, so its truthiness decides nothing here).
Truthy(v) == v.t \in {"object", "primitive"}

\* `v?.key`: undefined on undefined and null, undefined on a primitive, the key's value
\* on an object that has it.
GetProperty(v, key) ==
    IF v.t = "object" /\ key \in DOMAIN v.f THEN v.f[key] ELSE Undef

\* `v.key = x` on an object.
SetProperty(v, key, x) ==
    JsObject([k \in (DOMAIN v.f) \cup {key} |-> IF k = key THEN x ELSE v.f[k]])

\* An item: a code action (no uri of its own) or a call-hierarchy item (item.uri).
Item(native, data) == [native |-> native, data |-> data]
NoItem == Item(Undef, JsUndefined)
CodeActionItems == {Item(Undef, v) : v \in DataValues}
CallHierarchyItems == {Item(u, v) : u \in URIs, v \in DataValues}

\* The items a client may send back in a second-phase request: its data is whatever an
\* engine or this server once put there, or nothing.  An identifier in it may differ in
\* case from the server's and may be the empty string.
MixedUris == {"a.ts", "A.TS", "b.ts"}
ClientUris == MixedUris \cup {""}
ClientObjects ==
    {JsObject(f) : f \in UNION {{g \in [S -> ClientUris \cup {"v"}] :
                                     \A k \in S : (k = "k") <=> (g[k] = "v")} :
                                 S \in SUBSET Keys}}
ClientData == {JsUndefined, JsNull, JsPrimitive} \cup ClientObjects
ResolveItems == {Item(Undef, v) : v \in ClientData}
ClientCallHierarchyItems == {Item(u, v) : u \in URIs, v \in ClientData}

\* `!uri`: undefined and the empty string are falsy.
Falsy(uri) == uri \in {Undef, ""}

\* `(item.data as { uri?: string; } | undefined)?.uri` and `(codeLens.data as any)?.uri`
RecoverResolveItem(item) == GetProperty(item.data, "uri")

\* String.prototype.toLowerCase on the identifiers of the model.
ToLowerCase(str) == IF str = "A.TS" THEN "a.ts" ELSE str

\* The answer of the client to GetEditorSelectionRequest: undefined, or the document and
\* the position of the active editor's selection.
Positions == {"p1", "p2"}
NoSelection == [some |-> FALSE, uri |-> Undef, position |-> Undef]
Selection(u, p) == [some |-> TRUE, uri |-> u, position |-> p]
Selections == {NoSelection} \cup {Selection(u, p) : u \in MixedUris, p \in Positions}

\* features.completion: undefined, or an object whose getDocumentSelectionRequest is
\* falsy or true.
CompletionFeatures == {"undefined", "off", "on"}

\* `features.completion?.getDocumentSelectionRequest ? ... : undefined`
SelectionEnabled(feature) == feature = "on"

\* A comparison of the two identifiers as they are.
SameDocumentExact(selUri, uri) == selUri = uri

\* `activeSel?.textDocument.uri.toLowerCase() === uri.toLowerCase()` for an activeSel
\* that is there.
SameDocument(selUri, uri) == ToLowerCase(selUri) = ToLowerCase(uri)

\* `const newPosition = activeSel?... === uri.toLowerCase() ? activeSel.position : undefined`
NewPosition(sel, uri) ==
    IF sel.some /\ SameDocument(sel.uri, uri) THEN sel.position ELSE Undef

\* A completion item's textEdit: none, a TextEdit or an InsertReplaceEdit.
Ranges == {"r1", "r2"}
Texts == {"t", "u"}
NoTextEdit == [t |-> "none", range |-> Undef, insert |-> Undef, replace |-> Undef,
               newText |-> Undef]
TextEdit(range, newText) ==
    [t |-> "TextEdit", range |-> range, insert |-> Undef, replace |-> Undef,
     newText |-> newText]
InsertReplaceEdit(insert, replace, newText) ==
    [t |-> "InsertReplaceEdit", range |-> Undef, insert |-> insert, replace |-> replace,
     newText |-> newText]
TextEdits ==
    {NoTextEdit} \cup {TextEdit(r, x) : r \in Ranges, x \in Texts}
                 \cup {InsertReplaceEdit(i, r, x) : i \in Ranges, r \in Ranges, x \in Texts}
CompletionItem(label, textEdit) == [label |-> label, textEdit |-> textEdit]
CompletionItems == {CompletionItem("x", e) : e \in TextEdits}

\* vscode.InsertReplaceEdit.is(item.textEdit)
IsInsertReplaceEdit(textEdit) == textEdit.t = "InsertReplaceEdit"

\* A downgrade that keeps the replace range instead of the insert range.
DowngradeItemToReplaceRange(item) ==
    IF item.textEdit # NoTextEdit /\ IsInsertReplaceEdit(item.textEdit)
    THEN [item EXCEPT !.textEdit = TextEdit(item.textEdit.replace, item.textEdit.newText)]
    ELSE item

\* onCompletion's loop body: vscode.TextEdit.replace(item.textEdit.insert, item.textEdit.newText)
DowngradeItem(item) ==
    IF item.textEdit # NoTextEdit /\ IsInsertReplaceEdit(item.textEdit)
    THEN [item EXCEPT !.textEdit = TextEdit(item.textEdit.insert, item.textEdit.newText)]
    ELSE item

\* params.capabilities.textDocument?.completion?.completionItem?.insertReplaceSupport:
\* undefined when the client left it or one of the objects on the way out.
Capabilities == {"undefined", "false", "true"}

\* `... ?? false`
InsertReplaceSupport(capability) == capability = "true"

\* onCodeAction's loop body.
AttachCodeAction(item, uri) ==
    IF Truthy(item.data) /\ TypeofIsObject(item.data)
    THEN [item EXCEPT !.data = SetProperty(item.data, "uri", uri)]
    ELSE [item EXCEPT !.data = JsObject([k \in {"uri"} |-> uri])]

\* callHierarchy.onPrepare's loop body: `if (typeof item.data !== 'object') item.data = {}`
\* leaves null in place, and `item.data.__uri = ...` on null throws a TypeError.
AttachPrepareThrows(item) == TypeofIsObject(item.data) /\ item.data.t = "null"

AttachPrepare(item, uri) ==
    LET data == IF ~TypeofIsObject(item.data) THEN JsObject(<<>>) ELSE item.data
    IN  [item EXCEPT !.data = SetProperty(data, "__uri", uri)]

\* `(codeAction.data as any)?.uri`
RecoverCodeAction(item) == GetProperty(item.data, "uri")

\* A recovery that trusts the item's own uri.
RecoverCallHierarchyNative(item) == item.native

\* `data?.__uri ?? handler.item.uri`
RecoverCallHierarchy(item) ==
    IF GetProperty(item.data, "__uri") # Undef
    THEN GetProperty(item.data, "__uri")
    ELSE item.native

\* A worker that calls cb whatever the lookup yielded.
WorkerCallsCbUnguarded(vueLs) == TRUE

\* `if (vueLs) { return cb(vueLs); }`: vueLs is whether there is an engine.
WorkerCallsCb(vueLs) == vueLs

FirstPhase == {"capability", "codeAction", "prepare"}
SecondPhase == {"codeActionResolve", "incomingCalls", "outgoingCalls"}
ResolvePhase == {"completionResolve", "codeLensResolve", "codeActionResolve"}

\* The answer of an engine to cb's call: nothing, a plain value, or a list of items.
AnsAbsent == [kind |-> "absent", items |-> <<>>]
AnsValue == [kind |-> "value", items |-> <<>>]
AnsItems(l) == [kind |-> "items", items |-> l]

\* A CompletionList.
AnsList(isIncomplete, items) ==
    [kind |-> "list", items |-> items, isIncomplete |-> isIncomplete]

ItemLists(S) == UNION {[1..n -> S] : n \in 0..MaxItems}

\* `if (!insertReplaceSupport && list) { for (const item of list.items) ... } return list`
ShapeCompletionList(capability, list) ==
    IF ~InsertReplaceSupport(capability) /\ list.kind = "list"
    THEN AnsList(list.isIncomplete, [k \in DOMAIN list.items |-> DowngradeItem(list.items[k])])
    ELSE list

EngineAnswers(kind) ==
    IF kind = "codeAction" THEN {AnsAbsent} \cup {AnsItems(l) : l \in ItemLists(CodeActionItems)}
    ELSE IF kind = "prepare"
    THEN {AnsAbsent} \cup {AnsItems(l) : l \in ItemLists(CallHierarchyItems)}
    ELSE IF kind = "completion"
    THEN {AnsAbsent} \cup {AnsList(b, l) : b \in BOOLEAN, l \in ItemLists(CompletionItems)}
    ELSE {AnsAbsent, AnsValue}

\* The handler's answer.
RespPending == [kind |-> "pending", items |-> <<>>]
RespAbsent == [kind |-> "absent", items |-> <<>>]
RespValue == [kind |-> "value", items |-> <<>>]
RespRaised == [kind |-> "raised", items |-> <<>>]
RespItems(l) == [kind |-> "items", items |-> l]

NothingHeld == [kind |-> "none", uri |-> Undef, items |-> <<>>]

\* Handlers that answer with worker()'s result as it is, without `?? ...`.
OnWorkerUndefinedAnswered(req) == RespAbsent

\* What the handler answers when worker() returned undefined: the `?? ...` of each.
OnWorkerUndefined(req) ==
    IF req.kind \in {"prepare", "incomingCalls", "outgoingCalls"} THEN RespItems(<<>>)
    ELSE IF req.kind \in ResolvePhase THEN RespItems(<<req.item>>)
    ELSE RespAbsent

DispInit ==
    /\ dpc = "idle"
    /\ dreq = [kind |-> "none", uri |-> Undef, item |-> NoItem]
    /\ workerUri = Undef
    /\ resolved = "none yet"
    /\ cbInvoked = FALSE
    /\ workerReturn = "none yet"
    /\ answer = "none"
    /\ attachThrew = FALSE
    /\ dresponse = RespPending
    /\ held = NothingHeld

\* The completion handlers' variables before a request: the server's settings are set
\* when register() is called.
CompInit ==
    /\ insertReplaceSupport \in Capabilities
    /\ completionFeature \in CompletionFeatures
    /\ selectionRequests = 0
    /\ activeSel = NoSelection
    /\ newPosition = Undef
    /\ engineList = AnsAbsent

CompIdle ==
    /\ insertReplaceSupport = "undefined"
    /\ completionFeature = "undefined"
    /\ selectionRequests = 0
    /\ activeSel = NoSelection
    /\ newPosition = Undef
    /\ engineList = AnsAbsent

\* A request arrives: nothing of the request before is left.
NewRequest ==
    /\ resolved' = "none yet"
    /\ cbInvoked' = FALSE
    /\ answer' = "none"
    /\ attachThrew' = FALSE
    /\ activeSel' = NoSelection
    /\ engineList' = AnsAbsent
    /\ UNCHANGED <<held, insertReplaceSupport, completionFeature>>

\* `return item` at the head of a resolve handler.
ReturnItem(item) ==
    /\ dresponse' = RespItems(<<item>>)
    /\ dpc' = "done"
    /\ workerUri' = Undef
    /\ workerReturn' = "none yet"

\* The handler calls worker(uri, cb), which runs to `await getLanguageService(uri)`.
CallWorker(uri) ==
    /\ workerUri' = uri
    /\ dpc' = "resolving"
    /\ dresponse' = RespPending
    /\ workerReturn' = "none yet"

\* A first-phase request for document uri arrives: hover and the like ("capability"),
\* textDocument/codeAction, or textDocument/prepareCallHierarchy.
OnFirstPhase(kind, uri) ==
    /\ dpc \in {"idle", "done"}
    /\ dreq' = [kind |-> kind, uri |-> uri, item |-> NoItem]
    /\ CallWorker(uri)
    /\ NewRequest
    /\ selectionRequests' = 0
    /\ newPosition' = Undef
    /\ UNCHANGED notDisp

\* textDocument/completion for document uri arrives.
OnCompletion(uri) ==
    /\ dpc \in {"idle", "done"}
    /\ OnFirstPhase("completion", uri)

\* onCodeLensResolve and onCodeActionResolve, from the head to the first await or to
\* the end: the item comes back as it is when its data names no document.
ResolveOf(kind, item) ==
    LET uri == IF kind = "codeActionResolve" THEN RecoverCodeAction(item)
               ELSE RecoverResolveItem(item)
    IN  /\ dreq' = [kind |-> kind, uri |-> uri, item |-> item]
        /\ IF Falsy(uri) THEN ReturnItem(item) ELSE CallWorker(uri)
        /\ NewRequest
        /\ selectionRequests' = 0
        /\ newPosition' = Undef
        /\ UNCHANGED notDisp

\* onIncomingCalls and onOutgoingCalls up to the await.
CallsOf(kind, item) ==
    LET uri == RecoverCallHierarchy(item)
    IN  /\ dreq' = [kind |-> kind, uri |-> uri, item |-> item]
        /\ CallWorker(uri)
        /\ NewRequest
        /\ selectionRequests' = 0
        /\ newPosition' = Undef
        /\ UNCHANGED notDisp

\* codeAction/resolve arrives with the k-th code action the client holds.
OnCodeActionResolve(k) ==
    /\ dpc \in {"idle", "done"}
    /\ held.kind = "codeAction"
    /\ k \in DOMAIN held.items
    /\ ResolveOf("codeActionResolve", held.items[k])

\* callHierarchy/incomingCalls or outgoingCalls arrives with the k-th item the client holds.
OnCalls(kind, k) ==
    /\ dpc \in {"idle", "done"}
    /\ held.kind = "prepare"
    /\ k \in DOMAIN held.items
    /\ CallsOf(kind, held.items[k])

\* codeAction/resolve or codeLens/resolve arrives with an item of the client's.  These
\* handlers keep nothing from one request to the next, so a behaviour follows one such
\* request from its arrival to its answer.
OnCodeActionResolveItem(codeAction) ==
    /\ dpc = "idle"
    /\ ResolveOf("codeActionResolve", codeAction)

OnCodeLensResolve(codeLens) ==
    /\ dpc = "idle"
    /\ ResolveOf("codeLensResolve", codeLens)

\* callHierarchy/incomingCalls or outgoingCalls arrives with an item of the client's, one
\* that an earlier answer of this server or of an engine carried.
OnCallsItem(kind, item) ==
    /\ dpc = "idle"
    /\ CallsOf(kind, item)

\* completionItem/resolve arrives: the handler runs to its first await or to its end.
OnCompletionResolve(item) ==
    /\ dpc = "idle"
    /\ LET uri == RecoverResolveItem(item)
       IN  /\ dreq' = [kind |-> "completionResolve", uri |-> uri, item |-> item]
           /\ NewRequest
           /\ IF Falsy(uri)
              THEN /\ ReturnItem(item)
                   /\ newPosition' = Undef
              ELSE IF SelectionEnabled(completionFeature)
              THEN \* `await connection.sendRequest(shared.GetEditorSelectionRequest.type)`
                   /\ dpc' = "selection"
                   /\ dresponse' = RespPending
                   /\ workerUri' = Undef
                   /\ workerReturn' = "none yet"
                   /\ newPosition' = Undef
              ELSE /\ newPosition' = NewPosition(NoSelection, uri)
                   /\ CallWorker(uri)
    /\ selectionRequests' =
           IF ~Falsy(RecoverResolveItem(item)) /\ SelectionEnabled(completionFeature)
           THEN 1 ELSE 0
    /\ UNCHANGED notDisp

\* The client answers the selection request: the handler settles newPosition and calls
\* worker(uri, cb).
GetEditorSelectionReturns(sel) ==
    /\ dpc = "selection"
    /\ activeSel' = sel
    /\ newPosition' = NewPosition(sel, dreq.uri)
    /\ CallWorker(dreq.uri)
    /\ UNCHANGED <<dreq, resolved, cbInvoked, answer, attachThrew, held>>
    /\ UNCHANGED <<insertReplaceSupport, completionFeature, selectionRequests, engineList>>
    /\ UNCHANGED notDisp

\* The selection request fails: the handler's promise rejects.
GetEditorSelectionFails ==
    /\ dpc = "selection"
    /\ dresponse' = RespRaised
    /\ dpc' = "done"
    /\ UNCHANGED <<dreq, workerUri, resolved, cbInvoked, workerReturn, answer, attachThrew,
                   held>>
    /\ UNCHANGED compVars
    /\ UNCHANGED notDisp

\* getLanguageService(uri) fulfils, with an engine or with undefined: worker calls cb,
\* which calls the engine and awaits it, or returns undefined.
WorkerGetLanguageServiceReturns(lookup) ==
    /\ dpc = "resolving"
    /\ resolved' = IF HasLanguageService(lookup) THEN "engine" ELSE "none"
    /\ IF WorkerCallsCb(HasLanguageService(lookup))
       THEN /\ cbInvoked' = TRUE
            /\ dpc' = "engine"
            /\ UNCHANGED <<workerReturn, dresponse>>
       ELSE /\ workerReturn' = "undefined"
            /\ dresponse' = OnWorkerUndefined(dreq)
            /\ dpc' = "done"
            /\ UNCHANGED cbInvoked
    /\ UNCHANGED <<dreq, workerUri, answer, attachThrew, held>>
    /\ UNCHANGED compVars
    /\ UNCHANGED notDisp

\* getLanguageService(uri) rejects: worker's promise and the handler's reject.
WorkerGetLanguageServiceFails ==
    /\ dpc = "resolving"
    /\ resolved' = "failed"
    /\ workerReturn' = "threw"
    /\ dresponse' = RespRaised
    /\ dpc' = "done"
    /\ UNCHANGED <<dreq, workerUri, cbInvoked, answer, attachThrew, held>>
    /\ UNCHANGED compVars
    /\ UNCHANGED notDisp

\* The attach loops over a list of items.
AttachAllCodeActions(items, uri) == [k \in DOMAIN items |-> AttachCodeAction(items[k], uri)]
AttachAllPrepare(items, uri) == [k \in DOMAIN items |-> AttachPrepare(items[k], uri)]
SomeAttachPrepareThrows(items) == \E k \in DOMAIN items : AttachPrepareThrows(items[k])

\* The engine has answered a: cb shapes the result, worker returns it, the handler
\* answers.
EngineAnswered(a) ==
    /\ answer' = a.kind
    /\ attachThrew' = (dreq.kind = "prepare" /\ SomeAttachPrepareThrows(a.items))
    /\ dpc' = "done"
    /\ IF dreq.kind = "codeAction"
       THEN \* `await vueLs.doCodeActions(...) ?? []`, the loop, `return codeActions`
            LET codeActions == AttachAllCodeActions(a.items, dreq.uri)
            IN  /\ workerReturn' = "value"
                /\ dresponse' = RespItems(codeActions)
                /\ held' = [kind |-> "codeAction", uri |-> dreq.uri, items |-> codeActions]
       ELSE IF dreq.kind = "prepare"
       THEN \* `if (items) { loop }`, `return items?.length ? items : null`, `?? []`
            IF SomeAttachPrepareThrows(a.items)
            THEN /\ workerReturn' = "threw"
                 /\ dresponse' = RespRaised
                 /\ UNCHANGED held
            ELSE LET items == AttachAllPrepare(a.items, dreq.uri)
                 IN  /\ workerReturn' = IF Len(items) > 0 THEN "value" ELSE "null"
                     /\ dresponse' = RespItems(items)
                     /\ held' = [kind |-> "prepare", uri |-> dreq.uri, items |-> items]
       ELSE IF dreq.kind = "completion"
       THEN \* `await vueLs.doComplete(...)`, the downgrade, `return list`
            LET list == ShapeCompletionList(insertReplaceSupport, a)
            IN  /\ workerReturn' = IF a = AnsAbsent THEN "undefined" ELSE "value"
                /\ dresponse' = IF a = AnsAbsent THEN RespAbsent ELSE list
                /\ UNCHANGED held
       ELSE IF dreq.kind \in ResolvePhase
       THEN \* `vueLs.doCompletionResolve(item, newPosition) ?? item`,
            \* `vueLs.doCodeLensResolve(codeLens) ?? codeLens`,
            \* `vueLs.doCodeActionResolve(codeAction)`, and `?? item` after worker
            /\ workerReturn' = IF a = AnsAbsent THEN "undefined" ELSE "value"
            /\ dresponse' = IF a = AnsAbsent THEN RespItems(<<dreq.item>>) ELSE RespValue
            /\ UNCHANGED held
       ELSE IF dreq.kind \in {"incomingCalls", "outgoingCalls"}
       THEN \* `vueLs.callHierarchy.get...Calls(handler.item)`, `?? []`
            /\ workerReturn' = IF a = AnsAbsent THEN "undefined" ELSE "value"
            /\ dresponse' = IF a = AnsAbsent THEN RespItems(<<>>) ELSE RespValue
            /\ UNCHANGED held
       ELSE \* onHover and the like: worker's result is the handler's answer
            /\ workerReturn' = IF a = AnsAbsent THEN "undefined" ELSE "value"
            /\ dresponse' = IF a = AnsAbsent THEN RespAbsent ELSE RespValue
            /\ UNCHANGED held
    /\ engineList' = IF dreq.kind = "completion" THEN a ELSE engineList
    /\ UNCHANGED <<dreq, workerUri, resolved, cbInvoked>>
    /\ UNCHANGED <<insertReplaceSupport, completionFeature, selectionRequests, activeSel,
                   newPosition>>
    /\ UNCHANGED notDisp

\* The engine answers cb's call.
EngineReturns ==
    /\ dpc = "engine"
    /\ \E a \in EngineAnswers(dreq.kind) : EngineAnswered(a)

\* The engine's call fails: cb's promise, worker's and the handler's reject.
EngineFails ==
    /\ dpc = "engine"
    /\ answer' = "failed"
    /\ workerReturn' = "threw"
    /\ dresponse' = RespRaised
    /\ dpc' = "done"
    /\ UNCHANGED <<dreq, workerUri, resolved, cbInvoked, attachThrew, held>>
    /\ UNCHANGED compVars
    /\ UNCHANGED notDisp

DispNext ==
    \/ \E kind \in FirstPhase, uri \in URIs : OnFirstPhase(kind, uri)
    \/ \E k \in 1..MaxItems : OnCodeActionResolve(k)
    \/ \E kind \in {"incomingCalls", "outgoingCalls"}, k \in 1..MaxItems : OnCalls(kind, k)
    \/ \E lookup \in ProjectLookups : WorkerGetLanguageServiceReturns(lookup)
    \/ WorkerGetLanguageServiceFails
    \/ EngineReturns
    \/ EngineFails

\* The completion handlers, and the second-phase handlers on the items of a client.
ResolveNext ==
    \/ \E uri \in URIs : OnCompletion(uri)
    \/ \E item \in ResolveItems : OnCompletionResolve(item)
    \/ \E sel \in Selections : GetEditorSelectionReturns(sel)
    \/ GetEditorSelectionFails
    \/ \E codeLens \in ResolveItems : OnCodeLensResolve(codeLens)
    \/ \E codeAction \in ResolveItems : OnCodeActionResolveItem(codeAction)
    \/ \E kind \in {"incomingCalls", "outgoingCalls"}, item \in ClientCallHierarchyItems :
          OnCallsItem(kind, item)
    \/ \E lookup \in ProjectLookups : WorkerGetLanguageServiceReturns(lookup)
    \/ WorkerGetLanguageServiceFails
    \/ EngineReturns
    \/ EngineFails

(***************************************************************************)
(* buildTokens.                                                            *)
(***************************************************************************)
\* A vue.SemanticToken: <<line, character, length, tokenType, tokenModifiers>>.
Token(line, char, length, type, modifiers) == <<line, char, length, type, modifiers>>
Tokens ==
    {Token(l, c, n, 1, 0) : l \in 0..MaxLine, c \in {0, 5}, n \in {2, 3}}
TokenArrays == UNION {[1..n -> Tokens] : n \in 0..MaxTokens}

\* A comparator that looks at the line only.
CompareByLine(a, b) == a[1] - b[1]

\* `(a, b) => a[0] - b[0] === 0 ? a[1] - b[1] : a[0] - b[0]`
Compare(a, b) == IF a[1] - b[1] = 0 THEN a[2] - b[2] ELSE a[1] - b[1]

\* Array.prototype.sort is stable: an element goes behind every element that does not
\* compare greater than it.
RECURSIVE InsertSorted(_, _)
InsertSorted(sorted, token) ==
    IF sorted = <<>> THEN <<token>>
    ELSE IF Compare(Head(sorted), token) <= 0
    THEN <<Head(sorted)>> \o InsertSorted(Tail(sorted), token)
    ELSE <<token>> \o sorted

RECURSIVE SortFrom(_, _)
SortFrom(sorted, rest) ==
    IF rest = <<>> THEN sorted
    ELSE SortFrom(InsertSorted(sorted, Head(rest)), Tail(rest))

\* `tokens.sort(...)`
SortTokens(array) == SortFrom(<<>>, array)

\* new vscode.SemanticTokensBuilder()
NewBuilder == [data |-> <<>>, prevLine |-> 0, prevChar |-> 0]

\* builder.push(line, char, length, tokenType, tokenModifiers): the line relative to the
\* token before, the character relative to it when on the same line.
BuilderPush(builder, token) ==
    LET pushLine == IF Len(builder.data) > 0 THEN token[1] - builder.prevLine ELSE token[1]
        pushChar == IF Len(builder.data) > 0 /\ pushLine = 0
                    THEN token[2] - builder.prevChar ELSE token[2]
    IN  [data |-> builder.data \o <<pushLine, pushChar, token[3], token[4], token[5]>>,
         prevLine |-> token[1],
         prevChar |-> token[2]]

\* `for (const token of sortedTokens) builder.push(...token)`
RECURSIVE PushAll(_, _)
PushAll(builder, sortedTokens) ==
    IF sortedTokens = <<>> THEN builder
    ELSE PushAll(BuilderPush(builder, Head(sortedTokens)), Tail(sortedTokens))

\* buildTokens(tokens): the `data` of builder.build().
BuildTokensData(array) == PushAll(NewBuilder, SortTokens(array)).data

NotBuilt == [built |-> FALSE, data |-> <<>>]
Built(data) == [built |-> TRUE, data |-> data]

\* The number of times x occurs in array.
RECURSIVE Occurrences(_, _)
Occurrences(x, array) ==
    IF array = <<>> THEN 0
    ELSE (IF Head(array) = x THEN 1 ELSE 0) + Occurrences(x, Tail(array))

\* Two arrays that hold the same tuples, each as often.
IsPermutation(a, b) ==
    /\ Len(a) = Len(b)
    /\ \A k \in DOMAIN a : Occurrences(a[k], a) = Occurrences(a[k], b)

TokInit ==
    /\ tokens \in TokenArrays
    /\ otherTokens \in {array \in TokenArrays : IsPermutation(tokens, array)}
    /\ encoded = NotBuilt
    /\ otherEncoded = NotBuilt

TokIdle ==
    /\ tokens = <<>>
    /\ otherTokens = <<>>
    /\ encoded = NotBuilt
    /\ otherEncoded = NotBuilt

\* buildTokens(tokens)
BuildTokens ==
    /\ ~encoded.built
    /\ tokens' = SortTokens(tokens)
    /\ encoded' = Built(BuildTokensData(tokens))
    /\ UNCHANGED <<otherTokens, otherEncoded>>
    /\ UNCHANGED notTok

\* buildTokens(otherTokens)
BuildOtherTokens ==
    /\ ~otherEncoded.built
    /\ otherTokens' = SortTokens(otherTokens)
    /\ otherEncoded' = Built(BuildTokensData(otherTokens))
    /\ UNCHANGED <<tokens, encoded>>
    /\ UNCHANGED notTok

TokNext ==
    \/ BuildTokens
    \/ BuildOtherTokens

(***************************************************************************)
(* The specifications: one per handler family.                             *)
(***************************************************************************)
RenameIdle ==
    /\ documents = [u \in URIs |-> 0]
    /\ fileRenamings = {}
    /\ renameFileContentCache = EmptyCache
    /\ files = [b \in Batches |-> <<>>]
    /\ configSection = [b \in Batches |-> ""]
    /\ config = [b \in Batches |-> ""]
    /\ pc = [b \in Batches |-> "idle"]
    /\ query = [b \in Batches |-> <<>>]
    /\ edits = [b \in Batches |-> <<>>]
    /\ response = [b \in Batches |-> Pending]
    /\ applied = [b \in Batches |-> <<>>]
    /\ cacheWriters = {}
    /\ lookedUp = [b \in Batches |-> <<>>]
    /\ settled = [b \in Batches |-> <<>>]
    /\ merged = [b \in Batches |-> NotReturned]
    /\ events = [b \in Batches |-> <<>>]
    /\ captured = [b \in Batches |-> EmptyCache]

RenameSpecInit == RenameInit /\ SymIdle /\ DispInit /\ CompIdle /\ TokIdle
SpecRename == RenameSpecInit /\ [][RenameNext]_vars

SpecOverlap == RenameSpecInit /\ [][OverlapNext]_vars

SymSpecInit == SymInit /\ RenameIdle /\ DispInit /\ CompIdle /\ TokIdle
SpecSymbol == SymSpecInit /\ [][SymNext]_vars

DispSpecInit == DispInit /\ CompIdle /\ RenameIdle /\ SymIdle /\ TokIdle
SpecDispatch == DispSpecInit /\ [][DispNext]_vars

ResolveSpecInit == DispInit /\ CompInit /\ RenameIdle /\ SymIdle /\ TokIdle
SpecResolve == ResolveSpecInit /\ [][ResolveNext]_vars

TokSpecInit == TokInit /\ RenameIdle /\ SymIdle /\ DispInit /\ CompIdle
SpecTokens == TokSpecInit /\ [][TokNext]_vars

(***************************************************************************)
(* Properties of the rename handler.                                       *)
(***************************************************************************)
\* The batch's asynchronous work has ended: no step of the batch is left to take,
\* whether it ended normally or by an exception nothing caught.
WorkEnded(b) == pc[b] \in {"done", "failed"}
AllSettled(b) == \A i \in DOMAIN query[b] : query[b][i] \in {"fulfilled", "rejected"}
WorkerRan(b) == query[b] # <<>>

\* C1: in the always path every PendingRenaming added to fileRenamings is removed on
\* every exit path of the batch's work (success, no edit, a failing engine lookup or a
\* failing getEditsForFileRename): once the work has ended the set does not hold it.
C1_RemovedOnEveryExit ==
    \A b \in Batches : (IsAlways(config[b]) /\ WorkEnded(b)) => b \notin fileRenamings

\* C2: a failure of one engine's rename-edit computation does not abort the batch: the
\* failing engine contributes no edit, and the other engines' edits are still merged
\* and returned (prompt) or applied (always).
C2_FailureDoesNotAbort ==
    \A b \in Batches :
        (WorkEnded(b) /\ WorkerRan(b) /\ AllSettled(b) /\ SomeRejected(b)) =>
            LET expected == WorkerResult(edits[b])
            IN  IF IsAlways(config[b])
                THEN /\ pc[b] = "done"
                     /\ expected.some =>
                            /\ Len(applied[b]) = 1
                            /\ Len(applied[b][1].documentChanges) = Len(expected.documentChanges)
                ELSE response[b] = Returned(expected)

\* The file of the batch whose old URI is u, if any.
RenamedFrom(fs, u) == {i \in DOMAIN fs : fs[i].oldUri = u}

\* C3: in the always path, in the edit passed to apply-edit every TextDocumentEdit
\* whose identifier was the old URI of a file f of the batch carries f's new URI, and
\* every other entry is as the engines produced it.
C3_RewrittenToNewUri ==
    \A b \in Batches : \A n \in DOMAIN applied[b] :
        LET before == WorkerResult(edits[b]).documentChanges
            after == applied[b][n].documentChanges
        IN  /\ DOMAIN after = DOMAIN before
            /\ \A k \in DOMAIN before :
                  IF before[k].kind = "edit" /\ RenamedFrom(files[b], before[k].uri) # {}
                  THEN \A i \in RenamedFrom(files[b], before[k].uri) :
                          after[k].uri = files[b][i].newUri
                  ELSE after[k] = before[k]

\* C4: in the always path the PendingRenaming is in fileRenamings from the handler's
\* step that receives 'always' on: every state another task can observe before the
\* batch is cleaned up has it in the set, and every engine lookup, engine query and
\* apply-edit call of the batch happens while it is in the set.
C4_InSetWhileInFlight ==
    \A b \in Batches : (IsAlways(config[b]) /\ pc[b] # "done") => b \in fileRenamings

C4_CallsWhileInSet ==
    \A b \in Batches :
        IsAlways(config[b]) =>
            /\ query'[b] # query[b] => (b \in fileRenamings /\ b \in fileRenamings')
            /\ applied'[b] # applied[b] => b \in fileRenamings

C4_RegisteredBeforeYield == []C4_InSetWhileInFlight /\ [][C4_CallsWhileInSet]_vars

C4_Witness ==
    \E b \in Batches :
        /\ IsAlways(config[b])
        /\ pc[b] = "resolved"
        /\ Len(applied[b]) = 1
        /\ b \in fileRenamings

\* C5: with the policy 'prompt' the handler answers with worker()'s merged edit, never
\* calls apply-edit, never adds a PendingRenaming and never writes the content cache.
C5_PromptReturnsMerged ==
    \A b \in Batches :
        IsPrompt(config[b]) =>
            /\ applied[b] = <<>>
            /\ b \notin fileRenamings
            /\ b \notin cacheWriters
            /\ response[b].kind = "returned" =>
                   (AllFulfilled(b) /\ response[b].edit = WorkerResult(edits[b]))
            /\ (pc[b] = "done" /\ AllFulfilled(b)) => response[b].kind = "returned"

C5_Witness ==
    \E b \in Batches :
        /\ IsPrompt(config[b])
        /\ response[b].kind = "returned"
        /\ Len(response[b].edit.documentChanges) = 2
        /\ \E u \in URIs : documents[u] # 0

\* C6: when the policy fetch yields null or undefined, or fails, the handler behaves as
\* for 'never': it answers no edit without raising, queries no engine, calls no
\* apply-edit and leaves the in-flight set and the content cache alone.
C6_UnavailableIsNever ==
    \A b \in Batches :
        config[b] \in {"null", "undefined", "failed"} =>
            /\ response[b] = Returned(NoEdit)
            /\ ~WorkerRan(b)
            /\ applied[b] = <<>>
            /\ b \notin fileRenamings
            /\ b \notin cacheWriters

(***************************************************************************)
(* Properties of the workspace-symbol handler.                             *)
(***************************************************************************)
\* The engines of all workspaces in workspace-then-project order: a workspace's explicit
\* projects, or its inferred project (0) when it has none.
RECURSIVE ExpectedCalls(_, _)
ExpectedCalls(ws, w) ==
    IF w > Len(ws) THEN <<>>
    ELSE (IF ws[w] = 0 THEN <<<<w, 0>>>> ELSE [i \in 1..ws[w] |-> <<w, i>>])
         \o ExpectedCalls(ws, w + 1)

RECURSIVE Flatten(_)
Flatten(lists) == IF lists = <<>> THEN <<>> ELSE Head(lists) \o Flatten(Tail(lists))

IsPrefix(s, t) == Len(s) <= Len(t) /\ \A k \in DOMAIN s : s[k] = t[k]

\* C7: when the check before a query reads the token as cancelled, the handler answers
\* undefined, never the results gathered so far, and queries no further engine; so
\* every non-absent answer holds the results of all engines of all workspaces.
C7_CancelAbandons ==
    /\ cancelSeen =>
           /\ symPc = "done"
           /\ symResponse = SymUndefined
           /\ Len(symCalls) = Len(symAnswers)
    /\ symResponse.kind = "returned" =>
           /\ symCalls = ExpectedCalls(workspaces, 1)
           /\ Len(symAnswers) = Len(symCalls)
           /\ symResponse.list = Flatten(symAnswers)

C7_Witness ==
    /\ cancelSeen
    /\ Len(results) > 0
    /\ Len(symCalls) < Len(ExpectedCalls(workspaces, 1))
    /\ symResponse = SymUndefined

\* C8: without cancellation the handler queries one engine per explicit project of each
\* workspace, the inferred project's for a workspace without explicit projects, one
\* after another in workspace-then-project order, and answers the concatenation of the
\* engines' lists in that order, nothing dropped or de-duplicated.
C8_OneEnginePerProjectInOrder ==
    /\ IsPrefix(symCalls, ExpectedCalls(workspaces, 1))
    /\ Len(symAnswers) <= Len(symCalls)
    /\ Len(symCalls) <= Len(symAnswers) + 1
    /\ Len(symCalls) = Len(symAnswers) + 1 =>
           (symPc = "awaitEngine" \/ symResponse = SymRaised)
    /\ results = Flatten(symAnswers)
    /\ (symPc = "done" /\ ~cancelSeen /\ symResponse # SymRaised) =>
           /\ symCalls = ExpectedCalls(workspaces, 1)
           /\ symResponse = SymReturned(Flatten(symAnswers))

C8_Witness ==
    /\ workspaces = <<2, 0>>
    /\ symCalls = << <<1, 1>>, <<1, 2>>, <<2, 0>> >>
    /\ symResponse = SymReturned(<<"s", "s", "t", "s">>)

(***************************************************************************)
(* Properties of worker(uri, cb) and of the two-phase requests.            *)
(***************************************************************************)
\* C9: when getLanguageService yields no engine for the identifier, worker(uri, cb)
\* returns undefined, cb is never called and nothing is raised; a handler that answers
\* with worker's result answers absent.
C9_NoEngineIsAbsent ==
    resolved = "none" =>
        /\ ~cbInvoked
        /\ workerReturn = "undefined"
        /\ dresponse # RespRaised
        /\ dreq.kind = "capability" => dresponse = RespAbsent

C9_Witness ==
    /\ resolved = "none"
    /\ dpc = "done"
    /\ dreq.kind = "capability"
    /\ dresponse = RespAbsent

\* C10: for every item an engine answers and every document identifier d, attaching d
\* (code action: data.uri; call-hierarchy prepare: data.__uri) does not raise, whatever
\* the item's data was (undefined, null, a primitive, an object with other keys), and
\* the matching second-phase handler recovers d from the attached item.
C10_RoundTrip ==
    /\ (dreq.kind = "codeAction" /\ answer = "items") =>
           /\ dresponse.kind = "items"
           /\ \A k \in DOMAIN dresponse.items : RecoverCodeAction(dresponse.items[k]) = dreq.uri
    /\ (dreq.kind = "prepare" /\ answer = "items") =>
           /\ dresponse.kind = "items"
           /\ \A k \in DOMAIN dresponse.items :
                  RecoverCallHierarchy(dresponse.items[k]) = dreq.uri
    /\ dreq.kind \in SecondPhase => dreq.uri = held.uri

(***************************************************************************)
(* Properties of the resolve handlers on the items of a client.            *)
(***************************************************************************)
\* The item's data names a document: it is an object with a non-empty `uri`.
HasIdentifier(item) ==
    /\ item.data.t = "object"
    /\ "uri" \in DOMAIN item.data.f
    /\ item.data.f["uri"] # ""

\* C11: a completion-resolve, code-lens-resolve or code-action-resolve request whose
\* item names no document is answered with the item as it came and never raises, no
\* engine is looked up or invoked and nothing is asked of the client; the item as it
\* came is also the answer when the item names a document for which there is no engine.
C11_MissingIdentifierEchoes ==
    dreq.kind \in ResolvePhase =>
        /\ ~HasIdentifier(dreq.item) =>
               /\ dpc = "done"
               /\ dresponse = RespItems(<<dreq.item>>)
               /\ workerUri = Undef
               /\ resolved = "none yet"
               /\ ~cbInvoked
               /\ selectionRequests = 0
        /\ resolved = "none" =>
               /\ dpc = "done"
               /\ dresponse = RespItems(<<dreq.item>>)
               /\ ~cbInvoked

C11_Witness ==
    /\ dreq.kind = "completionResolve"
    /\ completionFeature = "on"
    /\ dreq.item.data = JsNull
    /\ dpc = "done"
    /\ dresponse = RespItems(<<dreq.item>>)

\* Two identifiers that differ at most in the case of their letters.
EqualIgnoringCase(a, b) == a = b \/ {a, b} = {"a.ts", "A.TS"}

\* C16: in completion resolve the client is asked for the active selection only when
\* features.completion.getDocumentSelectionRequest is set, and the question is asked
\* and answered before the engine is looked up and invoked; doCompletionResolve gets the
\* selection's position if and only if the feature is on and the selection's document
\* equals the item's identifier up to case, and no position otherwise.
C16_SelectionCorrelation ==
    dreq.kind = "completionResolve" =>
        /\ selectionRequests = 1 => completionFeature = "on"
        /\ dpc = "selection" =>
               (selectionRequests = 1 /\ workerUri = Undef /\ resolved = "none yet"
                /\ ~cbInvoked)
        /\ workerUri # Undef => (selectionRequests = 1 <=> completionFeature = "on")
        /\ workerUri # Undef =>
               newPosition =
                   IF /\ completionFeature = "on"
                      /\ activeSel.some
                      /\ EqualIgnoringCase(activeSel.uri, dreq.uri)
                   THEN activeSel.position
                   ELSE Undef

C16_Witness ==
    /\ dreq.kind = "completionResolve"
    /\ completionFeature = "on"
    /\ activeSel = Selection("A.TS", "p2")
    /\ dreq.uri = "a.ts"
    /\ cbInvoked
    /\ newPosition = "p2"

\* C13: when the client declared no insertReplaceSupport (the capability is missing or
\* false), no item of the list the completion handler answers carries an
\* InsertReplaceEdit: each is replaced by a TextEdit over the edit's insert range with the
\* edit's newText, every other item and every other field is as the engine answered it;
\* when the client declared the support, the answer is the engine's list.
C13_InsertReplaceDowngraded ==
    (dreq.kind = "completion" /\ answer = "list") =>
        IF insertReplaceSupport = "true"
        THEN dresponse = engineList
        ELSE /\ dresponse.kind = "list"
             /\ dresponse.isIncomplete = engineList.isIncomplete
             /\ DOMAIN dresponse.items = DOMAIN engineList.items
             /\ \A k \in DOMAIN engineList.items :
                    LET before == engineList.items[k]
                        after == dresponse.items[k]
                    IN  /\ after.textEdit.t # "InsertReplaceEdit"
                        /\ IF before.textEdit.t = "InsertReplaceEdit"
                           THEN /\ after.label = before.label
                                /\ after.textEdit =
                                       TextEdit(before.textEdit.insert, before.textEdit.newText)
                           ELSE after = before

C13_Witness ==
    /\ dreq.kind = "completion"
    /\ insertReplaceSupport = "undefined"
    /\ engineList = AnsList(TRUE, <<CompletionItem("x", InsertReplaceEdit("r1", "r2", "u"))>>)
    /\ dresponse = AnsList(TRUE, <<CompletionItem("x", TextEdit("r1", "u"))>>)

\* C18: an incoming-calls or outgoing-calls request is dispatched to the engine of the
\* identifier under data.__uri whenever the item's data has that key, also when the
\* item's own uri names another document; the item's own uri is used only when there is
\* no such key.
C18_AttachedKeyPreferred ==
    dreq.kind \in {"incomingCalls", "outgoingCalls"} =>
        LET data == dreq.item.data
        IN  workerUri = IF data.t = "object" /\ "__uri" \in DOMAIN data.f
                        THEN data.f["__uri"]
                        ELSE dreq.item.native

C18_Witness ==
    /\ dreq.kind = "incomingCalls"
    /\ dreq.item.native = "a.ts"
    /\ GetProperty(dreq.item.data, "__uri") = "b.ts"
    /\ workerUri = "b.ts"
    /\ cbInvoked

(***************************************************************************)
(* Properties of buildTokens.                                              *)
(***************************************************************************)
\* C12: buildTokens answers the same encoded data for any two arrays that are
\* permutations of the same collection of tuples, also when two tuples share their
\* line and column.
C12_SameOutputForPermutations ==
    (encoded.built /\ otherEncoded.built) => encoded.data = otherEncoded.data

\* The k-th entry of encoded data: <<line delta, column delta, length, type, modifiers>>.
Entry(data, k) == SubSeq(data, 5 * k - 4, 5 * k)

\* The tuples that encoded data stands for, with absolute lines and columns.
RECURSIVE Decode(_, _, _, _)
Decode(data, k, line, char) ==
    IF 5 * k > Len(data) THEN <<>>
    ELSE LET e == Entry(data, k)
             l == line + e[1]
             c == IF e[1] = 0 THEN char + e[2] ELSE e[2]
         IN  <<Token(l, c, e[3], e[4], e[5])>> \o Decode(data, k + 1, l, c)

\* C17: whatever the order of its input, buildTokens encodes the tuples in ascending
\* (line, column) order: every entry's line delta is >= 0, every entry on the line of the
\* entry before has a column delta >= 0, the first entry is relative to (0, 0), and the
\* entries stand for exactly the input's tuples with their length, type and modifiers;
\* [(0,0,3,T,0), (0,5,2,T,0)] is encoded as 0,0,3,T,0, 0,5,2,T,0.
C17_AscendingDeltas ==
    encoded.built =>
        /\ Len(encoded.data) = 5 * Len(tokens)
        /\ \A k \in DOMAIN tokens :
               /\ Entry(encoded.data, k)[1] >= 0
               /\ (k > 1 /\ Entry(encoded.data, k)[1] = 0) => Entry(encoded.data, k)[2] >= 0
        /\ IsPermutation(Decode(encoded.data, 1, 0, 0), tokens)
        /\ IsPermutation(tokens, <<Token(0, 0, 3, 1, 0), Token(0, 5, 2, 1, 0)>>) =>
               encoded.data = <<0, 0, 3, 1, 0, 0, 5, 2, 1, 0>>

C17_Witness ==
    /\ encoded.built
    /\ ~otherEncoded.built
    /\ otherTokens = <<Token(1, 0, 2, 1, 0), Token(0, 5, 3, 1, 0)>>
    /\ encoded.data = <<0, 5, 3, 1, 0, 1, 0, 2, 1, 0>>

(***************************************************************************)
(* Further properties of the rename handler.                               *)
(***************************************************************************)
\* C14: for every 'always' batch B and every old URI whose content B snapshotted, the
\* content cache holds the captured content for that URI from the capture until B's
\* PendingRenaming has left fileRenamings, whatever other batches and document closes
\* come in between: the cache is never cleared while a batch that filled it is in
\* flight.
C14_SnapshotKeptWhileInFlight ==
    \A b \in Batches : \A u \in URIs :
        (b \in fileRenamings /\ captured[b][u] # 0) =>
            renameFileContentCache[u] = captured[b][u]

\* The document changes of the non-absent edits, in the order of the batch's files.
RECURSIVE ChangesInFileOrder(_)
ChangesInFileOrder(es) ==
    IF es = <<>> THEN <<>>
    ELSE (IF Head(es).some THEN Head(es).documentChanges ELSE <<>>)
         \o ChangesInFileOrder(Tail(es))

\* C15: worker() looks up each file's engine by the file's old URI; it returns no edit
\* when no engine produced one, and otherwise the first non-absent edit in the order of
\* the batch's files with every later non-absent edit merged into it in that order,
\* none dropped, in whatever order the queries completed.
C15_MergedInFileOrder ==
    \A b \in Batches :
        /\ WorkerRan(b) =>
               lookedUp[b] = [i \in DOMAIN files[b] |-> files[b][i].oldUri]
        /\ merged[b].returned =>
               /\ AllFulfilled(b)
               /\ IF \E i \in DOMAIN edits[b] : edits[b][i].some
                  THEN /\ merged[b].edit.some
                       /\ merged[b].edit.documentChanges = ChangesInFileOrder(edits[b])
                  ELSE merged[b].edit = NoEdit
               /\ IsPrompt(config[b]) => response[b] = Returned(merged[b].edit)

C15_Witness ==
    \E b \in Batches :
        /\ Len(files[b]) = 2
        /\ settled[b] = <<2, 1>>
        /\ edits[b][1].some /\ edits[b][2].some
        /\ edits[b][1] # edits[b][2]
        /\ merged[b].returned
        /\ merged[b].edit.documentChanges =
               edits[b][1].documentChanges \o edits[b][2].documentChanges

\* Whether event e comes before event f in the batch's history.
ComesBefore(history, e, f) ==
    \E i, j \in DOMAIN history : i < j /\ history[i] = e /\ history[j] = f

\* C19: an 'always' batch calls apply-edit at most once, only after the snapshot was
\* taken, the sleep has elapsed and all its engine queries have completed, and only with
\* a merged edit that is not absent; the handler's own answer is null, given without
\* waiting for the queries or for apply-edit.
C19_ApplyEditOnceAfterWork ==
    \A b \in Batches :
        IsAlways(config[b]) =>
            /\ response[b] = Returned(NoEdit)
            /\ Len(applied[b]) <= 1
            /\ Len(applied[b]) = Occurrences("applyEdit", events[b])
            /\ applied[b] # <<>> =>
                   /\ ComesBefore(events[b], "snapshot", "applyEdit")
                   /\ ComesBefore(events[b], "slept", "applyEdit")
                   /\ ComesBefore(events[b], "merged", "applyEdit")
                   /\ WorkerRan(b) /\ AllFulfilled(b)
                   /\ merged[b].returned /\ merged[b].edit.some
            /\ (merged[b].returned /\ merged[b].edit.some) => Len(applied[b]) = 1

C19_Witness ==
    \E b \in Batches :
        /\ IsAlways(config[b])
        /\ Len(files[b]) = 2
        /\ Len(applied[b]) = 1
        /\ response[b] = Returned(NoEdit)
        /\ pc[b] = "resolved"

====
